---- MODULE Spec2Model ----
(***************************************************************************)
(* Model of src/server.py: the Flask product API that reads from a replica *)
(* pool and writes to a primary pool through run_query.                    *)
(*                                                                         *)
(* Each request is handled by one thread (a slot of Slots).  A request     *)
(* step is one of: the route handler up to its run_query call,             *)
(* pool.getconn(), cursor.execute()/fetchall()/commit(), and the finally   *)
(* block pool.putconn() followed by the handler's code after run_query.    *)
(* The database engine and the psycopg2 pool are the collaborators the     *)
(* code calls: a table per endpoint, a sequence for product_id, one        *)
(* transaction per checked-out connection, and replication from the        *)
(* primary to the replica.                                                 *)
(***************************************************************************)
EXTENDS Integers, Sequences, FiniteSets, Bags, TLC

\* ------------------------------------------------------------------ bounds
NReq == 2        \* request threads
MaxSeed == 4     \* largest product_id present when the server starts
MaxInserts == 2  \* INSERT statements executed in one behaviour

\* ------------------------------------------------------------ configuration
ADMIN_TOKEN == "token"
MINCONN == 1
MaxPool == 2     \* largest DB_POOL_MAX the server is started with
DefaultLimit == 100
DefaultOffset == 0

Max(a, b) == IF a >= b THEN a ELSE b
Min(a, b) == IF a <= b THEN a ELSE b

Slots == 1..Max(NReq, 2)
Pools == {"primary", "replica"}
Columns == {"product_name", "price", "product_image_url"}

\* ------------------------------------------------------------- JSON values
\* A JSON value of a request body.  k = "absent" marks a key the body does
\* not have.
JS(s) == [k |-> "str", s |-> s, n |-> 0]
JI(n) == [k |-> "int", s |-> "", n |-> n]
JNull == [k |-> "null", s |-> "", n |-> 0]
JAbsent == [k |-> "absent", s |-> "", n |-> 0]

\* request.get_json(force=True, silent=True): None (json = FALSE) or a dict.
NoBody ==
    [json |-> FALSE, product_name |-> JAbsent, price |-> JAbsent,
     product_image_url |-> JAbsent, product_id |-> JAbsent]
Body(name, price, image, id) ==
    [json |-> TRUE, product_name |-> name, price |-> price,
     product_image_url |-> image, product_id |-> id]
BodyFields == {"product_name", "price", "product_image_url", "product_id"}

\* data.keys()
Keys(data) == {f \in BodyFields : data[f].k # "absent"}
\* data.get(f): None when the key is absent
Get(data, f) == IF data[f].k = "absent" THEN JNull ELSE data[f]
\* `not data`: None or the empty dict
Falsy(data) == ~data.json \/ Keys(data) = {}

\* The decimal strings int() accepts, with their values.
NumStr ==
    ("0" :> 0) @@ ("1" :> 1) @@ ("2" :> 2) @@ ("3" :> 3) @@ ("4" :> 4)
    @@ ("7" :> 7) @@ ("-1" :> (0 - 1))

\* int(v) of a JSON value: an int is itself, a decimal string is parsed,
\* anything else (None, other text) raises.
IntOfJson(v) ==
    CASE v.k = "int" -> [ok |-> TRUE, n |-> v.n]
      [] v.k = "str" /\ v.s \in DOMAIN NumStr -> [ok |-> TRUE, n |-> NumStr[v.s]]
      [] OTHER -> [ok |-> FALSE, n |-> 0]

\* int(request.args.get(name, default)): a query argument is <<>> when
\* absent and <<text>> when present.
IntOfArg(a, default) ==
    IF a = <<>> THEN [ok |-> TRUE, n |-> default]
    ELSE IF a[1] \in DOMAIN NumStr THEN [ok |-> TRUE, n |-> NumStr[a[1]]]
    ELSE [ok |-> FALSE, n |-> 0]

\* ------------------------------------------------------------------- rows
\* A row of table products; product_image_url is <<>> for NULL.
Row(id, name, price, image) ==
    [product_id |-> id, product_name |-> name, price |-> price,
     product_image_url |-> image]

SeedRow(i) ==
    Row(i, IF i % 2 = 1 THEN "a" ELSE "b", 10 + i, IF i % 2 = 1 THEN <<"u">> ELSE <<>>)

\* The product_id sets the table may hold when the server starts.
SeedIdSets == {{}, 1..MaxSeed, (1..MaxSeed) \ {2}}

Ids(T) == {x.product_id : x \in T}

\* ORDER BY product_id
RECURSIVE OrderById(_)
OrderById(T) ==
    IF T = {} THEN <<>>
    ELSE LET m == CHOOSE x \in T : \A y \in T : x.product_id <= y.product_id
         IN <<m>> \o OrderById(T \ {m})

\* SELECT ... ORDER BY product_id LIMIT lim OFFSET off  (lim, off >= 0)
SelectPageLimitFirst(T, lim, off) ==
    LET s == SubSeq(OrderById(T), 1, Min(lim, Len(OrderById(T))))
    IN SubSeq(s, off + 1, Len(s))
SelectPage(T, lim, off) ==
    LET s == OrderById(T)
    IN SubSeq(s, off + 1, Min(off + lim, Len(s)))

\* A database value of a JSON value, by column.
DbText(v) == v.s
DbNullableText(v) == IF v.k = "str" THEN <<v.s>> ELSE <<>>

\* --------------------------------------------------------- request headers
\* Header text is a sequence of pieces; the piece " " is white space.
\* X-Admin-Token is <<>> when absent or empty.  Authorization has a scheme
\* (the text before the first space) and the credential after it.
NoAuth == [scheme |-> "", cred |-> <<>>]
Authz(scheme, cred) == [scheme |-> scheme, cred |-> cred]

RECURSIVE LStrip(_)
LStrip(s) == IF s # <<>> /\ Head(s) = " " THEN LStrip(Tail(s)) ELSE s
RECURSIVE RStrip(_)
RStrip(s) ==
    IF s # <<>> /\ s[Len(s)] = " " THEN RStrip(SubSeq(s, 1, Len(s) - 1)) ELSE s
\* str.strip()
Strip(s) == RStrip(LStrip(s))

\* The token admin_required compares: X-Admin-Token, else the stripped
\* credential of an Authorization header that starts with "Bearer ".
TokenOf(tok, auth) ==
    IF tok = <<>> /\ auth.scheme = "Bearer" THEN Strip(auth.cred) ELSE tok

\* TRUE when the decorator calls the wrapped handler, FALSE when it
\* answers 401.
admin_requiredNoCheck(tok, auth) == TRUE
admin_required(tok, auth) ==
    LET token == TokenOf(tok, auth)
    IN ~(token = <<>> \/ token # <<ADMIN_TOKEN>>)

\* ---------------------------------------------------------------- requests
NoParams == [cols |-> {}, name |-> "", price |-> 0, image |-> <<>>]

IdleReq ==
    [pc |-> "idle", route |-> "none", tok |-> <<>>, auth |-> NoAuth,
     body |-> NoBody, pid |-> 0, limit |-> <<>>, offset |-> <<>>,
     lim |-> 0, off |-> 0, params |-> NoParams, invoked |-> FALSE,
     attempt |-> 0, pool |-> "none", kind |-> "none", fetch |-> FALSE, exc |-> FALSE, tx |-> "idle",
     pend |-> {}, rows |-> <<>>, status |-> 0, acq |-> 0, rel |-> 0,
     before |-> {}, snap |-> {}]

\* The run_query call of each route: the pool it passes, the statement and
\* the fetch flag.
CallSiteSwapped(route) ==
    CASE route = "list" -> [pool |-> "primary", kind |-> "SELECT", fetch |-> TRUE]
      [] route = "create" -> [pool |-> "replica", kind |-> "INSERT", fetch |-> TRUE]
      [] OTHER -> [pool |-> "replica", kind |-> "UPDATE", fetch |-> TRUE]
CallSite(route) ==
    CASE route = "list" -> [pool |-> "replica", kind |-> "SELECT", fetch |-> TRUE]
      [] route = "create" -> [pool |-> "primary", kind |-> "INSERT", fetch |-> TRUE]
      [] OTHER -> [pool |-> "primary", kind |-> "UPDATE", fetch |-> TRUE]

\* return jsonify(...), status
Respond(q, status) == [q EXCEPT !.pc = "done", !.status = status]
\* the handler calls run_query
Call(q) ==
    [q EXCEPT !.pc = "call", !.attempt = @ + 1, !.exc = FALSE, !.rows = <<>>,
              !.pool = CallSite(q.route).pool, !.kind = CallSite(q.route).kind,
              !.fetch = CallSite(q.route).fetch]

VARIABLES req, used, avail, maxconn, primary, replica, seq, created, hook, closed

vars == <<req, used, avail, maxconn, primary, replica, seq, created, hook, closed>>

\* A request as it reaches the server.
Arrive(route, tok, auth, body, pid, limit, offset) ==
    [IdleReq EXCEPT !.pc = "recv", !.route = route, !.tok = tok, !.auth = auth,
                    !.body = body, !.pid = pid, !.limit = limit,
                    !.offset = offset, !.before = primary]

\* get_products up to its first run_query call.
GetProductsEntry(q) ==
    LET l == IntOfArg(q.limit, DefaultLimit)
        o == IntOfArg(q.offset, DefaultOffset)
    IN IF l.ok /\ o.ok
       THEN Call([q EXCEPT !.invoked = TRUE, !.lim = l.n, !.off = o.n])
       ELSE Respond([q EXCEPT !.invoked = TRUE], 400)

\* create_product, behind admin_required, up to its run_query call.
CreateProductEntryNoPriceCheck(q) ==
    LET data == q.body
        name == Get(data, "product_name")
        price == IntOfJson(Get(data, "price"))
        image == Get(data, "product_image_url")
        h == [q EXCEPT !.invoked = TRUE]
    IN IF ~admin_required(q.tok, q.auth) THEN Respond(q, 401)
       ELSE IF Falsy(data) THEN Respond(h, 400)
       ELSE IF name.k # "str" \/ name.s = "" THEN Respond(h, 400)
       ELSE Call([h EXCEPT !.params =
                     [cols |-> Columns, name |-> DbText(name),
                      price |-> price.n, image |-> DbNullableText(image)]])
CreateProductEntry(q) ==
    LET data == q.body
        name == Get(data, "product_name")
        price == IntOfJson(Get(data, "price"))
        image == Get(data, "product_image_url")
        h == [q EXCEPT !.invoked = TRUE]
    IN IF ~admin_required(q.tok, q.auth) THEN Respond(q, 401)
       ELSE IF Falsy(data) THEN Respond(h, 400)
       ELSE IF name.k # "str" \/ name.s = "" THEN Respond(h, 400)
       ELSE IF ~price.ok THEN Respond(h, 400)
       ELSE Call([h EXCEPT !.params =
                     [cols |-> Columns, name |-> DbText(name),
                      price |-> price.n, image |-> DbNullableText(image)]])

\* allowed = {"product_name", "price", "product_image_url"}
allowedWithId == Columns \cup {"product_id"}
allowed == Columns

\* update_product, behind admin_required, up to its run_query call.
UpdateProductEntry(q) ==
    LET data == q.body
        updates == Keys(data) \cap allowed
        price == IntOfJson(data.price)
        h == [q EXCEPT !.invoked = TRUE]
    IN IF ~admin_required(q.tok, q.auth) THEN Respond(q, 401)
       ELSE IF Falsy(data) THEN Respond(h, 400)
       ELSE IF updates = {} THEN Respond(h, 400)
       ELSE IF "price" \in updates /\ ~price.ok THEN Respond(h, 400)
       ELSE Call([h EXCEPT !.params =
                     [cols |-> updates, name |-> DbText(data.product_name),
                      price |-> price.n,
                      image |-> DbNullableText(data.product_image_url)]])

\* ----------------------------------------------------------------- database
TableOf(p) == IF p = "primary" THEN primary ELSE replica

\* The row an UPDATE ... SET <cols> writes over row x.
UpdatedWithNewId(x, params) ==
    Row(params.price,
        IF "product_name" \in params.cols THEN params.name ELSE x.product_name,
        IF "price" \in params.cols THEN params.price ELSE x.price,
        IF "product_image_url" \in params.cols THEN params.image
        ELSE x.product_image_url)
Updated(x, params) ==
    Row(x.product_id,
        IF "product_name" \in params.cols THEN params.name ELSE x.product_name,
        IF "price" \in params.cols THEN params.price ELSE x.price,
        IF "product_image_url" \in params.cols THEN params.image
        ELSE x.product_image_url)

\* The product_id the INSERT gives its row: the column list of the
\* statement leaves product_id to the table's sequence.
InsertIdFromMax == 1 + Cardinality(primary)
InsertId == seq

\* cur.execute(query, params) and cur.fetchall() on a connection of q.pool:
\* whether it succeeds, the rows it returns, the rows the open transaction
\* has written and the next value of the sequence.  `fail` is an error of
\* the store; a negative LIMIT or OFFSET and a write on the read-only
\* replica are errors too.
Statement(q, kind, fail) ==
    CASE kind = "SELECT" ->
           [ok |-> ~fail /\ q.lim >= 0 /\ q.off >= 0,
            rows |-> IF q.lim >= 0 /\ q.off >= 0
                     THEN SelectPage(TableOf(q.pool), q.lim, q.off) ELSE <<>>,
            pend |-> {}, nseq |-> seq]
      [] kind = "INSERT" ->
           LET row == Row(InsertId, q.params.name, q.params.price, q.params.image)
           IN [ok |-> ~fail /\ q.pool = "primary", rows |-> <<row>>,
               pend |-> {row}, nseq |-> seq + 1]
      [] OTHER ->
           LET hit == {Updated(x, q.params) : x \in {y \in primary : y.product_id = q.pid}}
           IN [ok |-> ~fail /\ q.pool = "primary", rows |-> OrderById(hit),
               pend |-> hit, nseq |-> seq]

\* COMMIT: the rows written by the transaction replace those of the table.
Commit(T, W) == {x \in T : x.product_id \notin Ids(W)} \cup W

\* --------------------------------------------------- after run_query returns
\* The handler's code after run_query returned its rows or raised (q.exc).
AfterRunQueryNoNotFound(q) ==
    CASE q.route = "list" ->
           IF ~q.exc THEN Respond(q, 200)
           ELSE IF q.attempt = 1 THEN Call(q)
           ELSE Respond(q, 500)
      [] q.route = "create" ->
           IF q.exc THEN Respond(q, 500)
           ELSE IF q.rows # <<>> THEN Respond(q, 201)
           ELSE Respond(q, 500)
      [] OTHER ->
           IF q.exc THEN Respond(q, 500) ELSE Respond(q, 200)
AfterRunQuery(q) ==
    CASE q.route = "list" ->
           IF ~q.exc THEN Respond(q, 200)
           ELSE IF q.attempt = 1 THEN Call(q)
           ELSE Respond(q, 500)
      [] q.route = "create" ->
           IF q.exc THEN Respond(q, 500)
           ELSE IF q.rows # <<>> THEN Respond(q, 201)
           ELSE Respond(q, 500)
      [] OTHER ->
           IF q.exc THEN Respond(q, 500)
           ELSE IF q.rows # <<>> THEN Respond(q, 200)
           ELSE Respond(q, 404)

\* The bag of the products that 201 responses have returned.
Log(q) ==
    IF q.route = "create" /\ q.status = 201
    THEN created (+) SetToBag({q.rows[1]}) ELSE created

\* ------------------------------------------------------------------ actions
\* Thread r can take a request: it has answered its last one and the
\* process is not exiting.
Free(r) == req[r].pc \in {"idle", "done"} /\ hook = "registered"

\* INSERTs still to run or already run stay within MaxInserts.
InsertBudget(q) ==
    q.route = "create" /\ q.pc = "call" =>
        seq + Cardinality({s \in Slots : req[s].route = "create"
                                          /\ req[s].pc \in {"call", "exec"}})
          <= MaxSeed + MaxInserts

\* GET /products
get_products(r, limit, offset) ==
    /\ Free(r)
    /\ req' = [req EXCEPT ![r] =
                  GetProductsEntry(Arrive("list", <<>>, NoAuth, NoBody, 0, limit, offset))]
    /\ UNCHANGED <<used, avail, maxconn, primary, replica, seq, created, hook, closed>>

\* POST /admin/products
create_product(r, tok, auth, body) ==
    /\ Free(r)
    /\ LET q == CreateProductEntry(Arrive("create", tok, auth, body, 0, <<>>, <<>>))
       IN /\ InsertBudget(q)
          /\ req' = [req EXCEPT ![r] = q]
    /\ UNCHANGED <<used, avail, maxconn, primary, replica, seq, created, hook, closed>>

\* PATCH /admin/products/<int:product_id>
update_product(r, tok, auth, pid, body) ==
    /\ Free(r)
    /\ req' = [req EXCEPT ![r] =
                  UpdateProductEntry(Arrive("update", tok, auth, body, pid, <<>>, <<>>))]
    /\ UNCHANGED <<used, avail, maxconn, primary, replica, seq, created, hook, closed>>

\* run_query: conn = pool.getconn().  The pool hands out an idle connection,
\* else opens one while fewer than maxconn are in use, else raises PoolError,
\* which leaves run_query before its try block.
getconnBlocking(r) ==
    /\ req[r].pc = "call"
    /\ LET q == req[r]
           p == q.pool
       IN /\ ~(avail[p] = 0 /\ Cardinality(used[p]) = maxconn)
          /\ req' = [req EXCEPT ![r] = [q EXCEPT !.pc = "exec", !.acq = @ + 1]]
          /\ used' = [used EXCEPT ![p] = @ \cup {r}]
          /\ avail' = [avail EXCEPT ![p] = IF @ > 0 THEN @ - 1 ELSE @]
    /\ UNCHANGED <<maxconn, primary, replica, seq, created, hook, closed>>
getconn(r) ==
    /\ req[r].pc = "call"
    /\ LET q == req[r]
           p == q.pool
       IN IF avail[p] = 0 /\ Cardinality(used[p]) = maxconn
          THEN /\ req' = [req EXCEPT ![r] = AfterRunQuery([q EXCEPT !.exc = TRUE])]
               /\ UNCHANGED <<used, avail>>
          ELSE /\ req' = [req EXCEPT ![r] = [q EXCEPT !.pc = "exec", !.acq = @ + 1]]
               /\ used' = [used EXCEPT ![p] = @ \cup {r}]
               /\ avail' = [avail EXCEPT ![p] = IF @ > 0 THEN @ - 1 ELSE @]
    /\ UNCHANGED <<maxconn, primary, replica, seq, created, hook, closed>>

\* run_query: the with block.  cur.execute, then fetchall and return when
\* fetch is set, else conn.commit().  An UPDATE waits while another open
\* transaction holds the row.
execute(r) ==
    /\ req[r].pc = "exec"
    /\ LET q == req[r]
       IN /\ q.kind = "UPDATE" =>
                \A s \in Slots \ {r} : q.pid \notin Ids(req[s].pend)
          /\ \E fail \in BOOLEAN :
               LET st == Statement(q, q.kind, fail)
               IN IF ~st.ok
                  THEN /\ req' = [req EXCEPT ![r] =
                                    [q EXCEPT !.pc = "finally", !.exc = TRUE,
                                              !.tx = "inerror", !.snap = TableOf(q.pool)]]
                       /\ UNCHANGED <<primary, seq>>
                  ELSE IF q.fetch
                  THEN /\ req' = [req EXCEPT ![r] =
                                    [q EXCEPT !.pc = "finally", !.rows = st.rows,
                                              !.tx = "intrans", !.pend = st.pend,
                                              !.snap = TableOf(q.pool)]]
                       /\ seq' = st.nseq
                       /\ UNCHANGED primary
                  ELSE /\ req' = [req EXCEPT ![r] =
                                    [q EXCEPT !.pc = "finally", !.tx = "idle",
                                              !.snap = TableOf(q.pool)]]
                       /\ seq' = st.nseq
                       /\ primary' = Commit(primary, st.pend)
    /\ UNCHANGED <<used, avail, maxconn, replica, created, hook, closed>>

\* pool.putconn(conn): the connection leaves the used set; the pool rolls
\* back a transaction that is still open and keeps the connection while it
\* holds fewer than minconn idle ones, else closes it (which ends the
\* transaction as well).
Release(q) == [q EXCEPT !.tx = "idle", !.pend = {}, !.rel = @ + 1]

\* run_query: the finally block, then the handler's code after the call.
putconnOnSuccessOnly(r) ==
    /\ req[r].pc = "finally"
    /\ LET q == req[r]
           p == q.pool
           n == AfterRunQuery(IF q.exc THEN q ELSE Release(q))
       IN /\ used' = IF q.exc THEN used ELSE [used EXCEPT ![p] = @ \ {r}]
          /\ avail' = IF q.exc THEN avail
                      ELSE [avail EXCEPT ![p] = IF @ < MINCONN THEN @ + 1 ELSE @]
          /\ req' = [req EXCEPT ![r] = n]
          /\ created' = Log(n)
    /\ UNCHANGED <<maxconn, primary, replica, seq, hook, closed>>
putconn(r) ==
    /\ req[r].pc = "finally"
    /\ LET q == req[r]
           p == q.pool
           n == AfterRunQuery(Release(q))
       IN /\ used' = [used EXCEPT ![p] = @ \ {r}]
          /\ avail' = [avail EXCEPT ![p] = IF @ < MINCONN THEN @ + 1 ELSE @]
          /\ req' = [req EXCEPT ![r] = n]
          /\ created' = Log(n)
    /\ UNCHANGED <<maxconn, primary, replica, seq, hook, closed>>

\* The replica applies what the primary has committed.
Replicate ==
    /\ replica # primary
    /\ replica' = primary
    /\ UNCHANGED <<req, used, avail, maxconn, primary, seq, created, hook, closed>>

\* ---------------------------------------------------------------- shutdown
\* def close_pools(exception): the parameters a call must supply.
close_poolsParams == <<"exception">>
\* @atexit.register: the arguments the interpreter passes to the registered
\* function at exit are those given to register, here none.
AtexitArgs == <<>>

\* pool.closeall() on pool p, given which pools are closed: PoolError when
\* the pool is closed already, else every connection of the pool is closed
\* (an error of one connection's close is swallowed) and the pool is marked
\* closed.
closeall(c, p) ==
    IF c[p] THEN [ok |-> FALSE, closed |-> c]
    ELSE [ok |-> TRUE, closed |-> [c EXCEPT ![p] = TRUE]]

\* The body of close_pools: closeall of the primary pool, then of the
\* replica pool, each in its own try/except that swallows the exception.
close_poolsBody(c) ==
    LET afterPrimary == closeall(c, "primary").closed
    IN closeall(afterPrimary, "replica").closed

\* A call close_pools(*args): the arguments are bound to the parameters
\* first; a call that does not supply `exception` raises TypeError and the
\* body does not run.
close_pools(args) ==
    IF Len(args) # Len(close_poolsParams)
    THEN [raised |-> TRUE, closed |-> closed]
    ELSE [raised |-> FALSE, closed |-> close_poolsBody(closed)]

\* Process teardown, once the server has stopped serving: the interpreter
\* runs the function registered with atexit; an exception of the function
\* is printed and the exit goes on.
run_exitfuncs ==
    /\ hook = "registered"
    /\ \A r \in Slots : req[r].pc \in {"idle", "done"}
    /\ LET res == close_pools(AtexitArgs)
       IN /\ hook' = IF res.raised THEN "raised" ELSE "returned"
          /\ closed' = res.closed
          /\ avail' = [p \in Pools |-> IF res.closed[p] THEN 0 ELSE avail[p]]
    /\ UNCHANGED <<req, used, maxconn, primary, replica, seq, created>>

\* -------------------------------------------------------------------- Init
Init ==
    /\ req = [r \in Slots |-> IdleReq]
    /\ used = [p \in Pools |-> {}]
    /\ avail = [p \in Pools |-> MINCONN]
    /\ maxconn \in {MINCONN, MaxPool}
    /\ \E S \in SeedIdSets : primary = {SeedRow(i) : i \in S}
    /\ replica \in {primary, {x \in primary : x.product_id < MaxSeed}}
    /\ seq = MaxSeed + 1
    /\ created = EmptyBag
    /\ hook = "registered"
    /\ closed = [p \in Pools |-> FALSE]

\* ------------------------------------------------------------------ inputs
GoodTok == <<ADMIN_TOKEN>>
BadTok == <<"wrong">>
Arg(limit, offset) == [limit |-> limit, offset |-> offset]
Hdr(tok, auth) == [tok |-> tok, auth |-> auth]

\* Requests of the concurrent specification.
ListArgs == {Arg(<<"2">>, <<"1">>)}
CreateHdrs == {Hdr(GoodTok, NoAuth)}
CreateBodies == {Body(JS("c"), JI(7), JAbsent, JAbsent)}
UpdateBodies == {Body(JAbsent, JS("7"), JAbsent, JAbsent)}
UpdateIds == {2}

Next ==
    \/ \E r \in 1..NReq, a \in ListArgs : get_products(r, a.limit, a.offset)
    \/ \E r \in 1..NReq, h \in CreateHdrs, b \in CreateBodies :
          create_product(r, h.tok, h.auth, b)
    \/ \E r \in 1..NReq, b \in UpdateBodies, i \in UpdateIds :
          update_product(r, GoodTok, NoAuth, i, b)
    \/ \E r \in 1..NReq : getconn(r)
    \/ \E r \in 1..NReq : execute(r)
    \/ \E r \in 1..NReq : putconn(r)

\* The server started on a table that holds rows, with the replica caught up.
InitConc == Init /\ primary # {} /\ replica = primary

Spec == InitConc /\ [][Next]_vars

\* Scheduling: a thread that can take its next step takes it (the server
\* runs every request thread), and the store grants a row to a waiting
\* UPDATE once the row is free (lock waiters are queued).
Fairness ==
    \A r \in 1..NReq :
        /\ WF_vars(getconn(r))
        /\ SF_vars(execute(r))
        /\ WF_vars(putconn(r))

\* Load on the pools: list and update requests only.
NextLoad ==
    \/ \E r \in 1..NReq, a \in ListArgs : get_products(r, a.limit, a.offset)
    \/ \E r \in 1..NReq, b \in UpdateBodies, i \in UpdateIds :
          update_product(r, GoodTok, NoAuth, i, b)
    \/ \E r \in 1..NReq : getconn(r)
    \/ \E r \in 1..NReq : execute(r)
    \/ \E r \in 1..NReq : putconn(r)

FairSpec == InitConc /\ [][NextLoad]_vars /\ Fairness

\* The server under load, then process exit.
NextExit ==
    \/ NextLoad
    \/ run_exitfuncs

ExitSpec == InitConc /\ [][NextExit]_vars

\* One request at a time, with every shape of header, body and argument.
WideToks == {<<>>, GoodTok, BadTok}
WideAuths ==
    {NoAuth, Authz("Bearer", GoodTok), Authz("Bearer", <<" ", ADMIN_TOKEN, " ">>),
     Authz("Bearer", BadTok), Authz("Bearer", <<>>), Authz("Basic", GoodTok)}
WideHdrs == {Hdr(t, a) : t \in WideToks, a \in WideAuths}
WideIds == {JAbsent, JI(1)}
WideImages == {JAbsent, JS("v"), JNull}
WideCreateImages == {JAbsent, JS("v")}
WidePrices == {JAbsent, JI(7), JS("7"), JS("abc")}
WideCreateBodies ==
    {NoBody} \cup
    {Body(n, p, i, d) : n \in {JAbsent, JS("c"), JS(""), JI(5)}, p \in WidePrices,
                        i \in WideCreateImages, d \in WideIds}
WideUpdateBodies ==
    {NoBody} \cup
    {Body(n, p, i, d) : n \in {JAbsent, JS("c")}, p \in WidePrices,
                        i \in WideImages, d \in WideIds}
WidePathIds == {2, MaxSeed + 10}
WideListArgs ==
    {Arg(l, o) : l \in {<<>>, <<"0">>, <<"2">>, <<"x">>, <<"-1">>},
                 o \in {<<>>, <<"1">>, <<"x">>, <<"-1">>}}
\* Every header with one body, and every body with a valid header.
WideCreates ==
    {[hdr |-> h, body |-> b] : h \in WideHdrs, b \in CreateBodies}
    \cup {[hdr |-> Hdr(GoodTok, NoAuth), body |-> b] : b \in WideCreateBodies}
WideUpdates ==
    {[hdr |-> h, body |-> b] : h \in WideHdrs, b \in UpdateBodies}
    \cup {[hdr |-> Hdr(GoodTok, NoAuth), body |-> b] : b \in WideUpdateBodies}

NextWide ==
    \/ \E a \in WideListArgs : get_products(1, a.limit, a.offset)
    \/ \E c \in WideCreates : create_product(1, c.hdr.tok, c.hdr.auth, c.body)
    \/ \E u \in WideUpdates, i \in WidePathIds :
          update_product(1, u.hdr.tok, u.hdr.auth, i, u.body)
    \/ getconn(1)
    \/ execute(1)
    \/ putconn(1)
    \/ Replicate

\* The server started with the smallest pool.
InitWide == Init /\ maxconn = MINCONN

WideSpec == InitWide /\ [][NextWide]_vars

\* Concurrent list requests only, over the pages of the pagination property.
PageArgs == {Arg(<<"2">>, <<"0">>), Arg(<<"2">>, <<"2">>), Arg(<<"4">>, <<"0">>)}

\* The two threads that serve them.
ListSlots == 1..2

NextList ==
    \/ \E r \in ListSlots, a \in PageArgs : get_products(r, a.limit, a.offset)
    \/ \E r \in ListSlots : getconn(r)
    \/ \E r \in ListSlots : execute(r)
    \/ \E r \in ListSlots : putconn(r)
    \/ Replicate

ListSpec == Init /\ [][NextList]_vars

\* =================================================================== claims
InFlight(r) == req[r].pc \in {"call", "exec", "finally"}
Holding(r) == req[r].pc \in {"exec", "finally"}
Answered(r, route) == req[r].route = route /\ req[r].pc = "done"

\* C1: every statement of list-products runs on a replica connection and
\* every statement of create-product and update-product on a primary
\* connection; no write is issued on the replica, no read on the primary.
C1_ReadsOnReplicaWritesOnPrimary ==
    \A r \in Slots :
        LET q == req[r]
        IN /\ q.attempt > 0 =>
                /\ q.route = "list" => q.pool = "replica" /\ q.kind = "SELECT"
                /\ q.route = "create" => q.pool = "primary" /\ q.kind = "INSERT"
                /\ q.route = "update" => q.pool = "primary" /\ q.kind = "UPDATE"
                /\ q.pool = "replica" => q.kind = "SELECT"
                /\ q.pool = "primary" => q.kind # "SELECT"
           /\ r \in used["replica"] => q.route = "list"
           /\ r \in used["primary"] => q.route \in {"create", "update"}

\* A read has run on the replica while a write has run on the primary.
C1_Witness ==
    \E r, s \in Slots :
        /\ req[r].route = "list" /\ req[r].pc = "finally" /\ ~req[r].exc
        /\ req[s].route \in {"create", "update"} /\ req[s].pc = "finally"
        /\ ~req[s].exc

\* The tokens a request carries: the X-Admin-Token value and the credential
\* of a Bearer Authorization header.
CarriedTokens(q) ==
    (IF q.tok # <<>> THEN {q.tok} ELSE {})
    \cup (IF q.auth.scheme = "Bearer" /\ Strip(q.auth.cred) # <<>>
          THEN {Strip(q.auth.cred)} ELSE {})

C3_ConnectionsReleasedOnce ==
    /\ \A r \in Slots :
          LET q == req[r]
          IN /\ q.rel <= q.acq /\ q.acq <= q.rel + 1
             /\ (q.acq = q.rel + 1) <=> Holding(r)
             /\ \A p \in Pools : r \in used[p] <=> (Holding(r) /\ p = q.pool)
             /\ q.acq <= q.attempt
    /\ (\A r \in Slots : ~InFlight(r)) =>
          \A p \in Pools : used[p] = {} /\ avail[p] = MINCONN

\* A list request whose first query failed and whose fallback query ran has
\* been answered, and nothing is checked out.
C3_Witness ==
    /\ \E r \in Slots :
          /\ Answered(r, "list") /\ req[r].status = 200
          /\ req[r].attempt = 2 /\ req[r].acq = 2 /\ req[r].rel = 2
    /\ \A r \in Slots : ~InFlight(r)
    /\ \A p \in Pools : used[p] = {}

\* C4: a create answered 201 returns a positive product_id no earlier create
\* returned, and the row is persisted: once the connection is back in the
\* pool the table holds it, and a later list request that covers the id
\* (read from a replica that has caught up) returns exactly that row.
C4_CreateIsDurable ==
    /\ \A c, d \in BagToSet(created) :
          /\ c.product_id > 0 /\ CopiesIn(c, created) = 1
          /\ c # d => c.product_id # d.product_id
    /\ (\A r \in Slots : ~InFlight(r)) => \A c \in BagToSet(created) : c \in primary
    /\ \A r \in Slots :
          LET q == req[r]
          IN Answered(r, "list") /\ q.status = 200 /\ q.off = 0
             /\ q.lim >= MaxSeed + MaxInserts /\ q.snap = primary =>
                \A c \in BagToSet(created) :
                    Cardinality({k \in 1..Len(q.rows) : q.rows[k] = c}) = 1

\* C5: an update of an existing id with a non-empty set of the three fields,
\* answered 200, leaves the stored row with each supplied field equal to the
\* supplied value (price as its integer), each other field as before, every
\* other row unchanged, and the response is that stored row.
C5_UpdateIsApplied ==
    \A r \in Slots :
        LET q == req[r]
            K == Keys(q.body)
        IN Answered(r, "update") /\ q.status = 200 /\ K # {} /\ K \subseteq Columns =>
              \E x \in primary, old \in q.before :
                  /\ x.product_id = q.pid /\ old.product_id = q.pid
                  /\ x.product_name =
                        IF "product_name" \in K THEN q.body.product_name.s
                        ELSE old.product_name
                  /\ x.price =
                        IF "price" \in K THEN IntOfJson(q.body.price).n ELSE old.price
                  /\ x.product_image_url =
                        IF "product_image_url" \in K
                        THEN DbNullableText(q.body.product_image_url)
                        ELSE old.product_image_url
                  /\ primary \ {x} = q.before \ {old}
                  /\ q.rows = <<x>>

\* C6: with more concurrent requests than a pool has connections no request
\* waits forever (each gets its response), and once no request is in flight
\* no connection of either pool is checked out.
C6_NoRequestWaitsForever ==
    /\ \A r \in Slots : InFlight(r) ~> (req[r].pc = "done")
    /\ []((\A r \in Slots : ~InFlight(r)) => \A p \in Pools : used[p] = {})

\* A request has been answered 500 without a connection because the pool was
\* exhausted by another request that still holds its connection.
C6_Witness ==
    \E r, s \in Slots :
        /\ r # s /\ Answered(r, "update") /\ req[r].status = 500
        /\ req[r].attempt = 1 /\ req[r].acq = 0
        /\ Holding(s) /\ req[s].pool = "primary"
        /\ Cardinality(used["primary"]) = maxconn

\* C7: concurrent creates answered 201 receive pairwise distinct product_id
\* values, none of them the id of a row that already existed.
C7_DistinctIds ==
    /\ \A c, d \in BagToSet(created) :
          /\ CopiesIn(c, created) = 1
          /\ c # d => c.product_id # d.product_id
    /\ \A r, s \in Slots :
          r # s /\ req[r].kind = "INSERT" /\ req[s].kind = "INSERT"
          /\ req[r].rows # <<>> /\ req[s].rows # <<>> =>
             req[r].rows[1].product_id # req[s].rows[1].product_id
    /\ \A r \in Slots :
          req[r].kind = "INSERT" /\ req[r].rows # <<>> =>
             /\ req[r].rows[1].product_id \notin Ids(req[r].before)
             /\ Answered(r, "create") /\ req[r].status = 201 =>
                   req[r].rows[1] \in BagToSet(created)

\* Two creates whose INSERT transactions were open at the same time have
\* both been answered 201.
C7_Witness ==
    \E r, s \in Slots :
        /\ r # s
        /\ Answered(r, "create") /\ req[r].status = 201
        /\ req[s].route = "create" /\ req[s].pc = "finally" /\ req[s].rows # <<>>
        /\ req[s].rows[1].product_id < req[r].rows[1].product_id

Authorized(q) == q.tok = <<ADMIN_TOKEN>>

\* C8: an update whose body holds only keys outside product_name, price and
\* product_image_url is answered 400, runs no statement on any pool and
\* leaves every row unchanged.
C8_UnknownKeysOnly ==
    \A r \in Slots :
        LET q == req[r]
        IN q.route = "update" /\ Authorized(q) /\ q.body.json
           /\ Keys(q.body) # {} /\ Keys(q.body) \cap Columns = {} =>
              /\ q.pc = "done" /\ q.status = 400
              /\ q.attempt = 0 /\ q.acq = 0
              /\ \A p \in Pools : r \notin used[p]
              /\ primary = q.before

C8_Witness ==
    \E r \in Slots :
        LET q == req[r]
        IN /\ Answered(r, "update") /\ q.status = 400 /\ Authorized(q)
           /\ Keys(q.body) = {"product_id"}
           /\ q.pid \in Ids(primary)

\* The body passes update_product's validation.
ValidUpdateBody(data) ==
    /\ data.json
    /\ Keys(data) \cap Columns # {}
    /\ "price" \in Keys(data) => IntOfJson(data.price).ok

NoSuchRow(q) ==
    /\ q.route = "update" /\ Authorized(q) /\ ValidUpdateBody(q.body)
    /\ q.pid \notin Ids(q.before)

\* C9 as stated: an update with a valid body whose id matches no row is
\* answered 404 and the table is the same before and after.
C9_NotFoundAlways404 ==
    \A r \in Slots :
        NoSuchRow(req[r]) /\ req[r].pc = "done" =>
            req[r].status = 404 /\ primary = req[r].before

\* C9, amended: such an update is answered 404 when its UPDATE statement
\* ran, and 500 when the pool was exhausted or the statement raised; it is
\* never answered 200, and the table is the same before and after.
C9_NotFound404Or500 ==
    \A r \in Slots :
        LET q == req[r]
        IN NoSuchRow(q) =>
              /\ primary = q.before
              /\ q.pc = "done" =>
                    /\ q.status = (IF q.exc THEN 500 ELSE 404)
                    /\ q.status = 404 => q.acq = 1 /\ q.rel = 1 /\ q.rows = <<>>

C9_Witness ==
    \E r \in Slots :
        /\ NoSuchRow(req[r]) /\ req[r].pc = "done" /\ req[r].status = 404
        /\ primary # {}

\* Bounds of the limits and offsets of the pagination identity.
PageMax == 3

Ascending(rows) ==
    \A i, j \in 1..Len(rows) : i < j => rows[i].product_id < rows[j].product_id

ListOk(r) == Answered(r, "list") /\ req[r].status = 200

\* C10: list pages read from the same table state are in ascending
\* product_id order, and page (a, o) followed by page (b, o + a) shares no
\* product_id with it and equals page (a + b, o); in particular for
\* (2, 0), (2, 2) and (4, 0).
C10_PagesConcatenate ==
    /\ \A r \in Slots : ListOk(r) => Ascending(req[r].rows)
    /\ \A r, s \in Slots :
          ListOk(r) /\ ListOk(s) /\ req[r].snap = req[s].snap
          /\ req[s].off = req[r].off + req[r].lim =>
             /\ Ids({req[r].rows[i] : i \in 1..Len(req[r].rows)})
                  \cap Ids({req[s].rows[i] : i \in 1..Len(req[s].rows)}) = {}
             /\ Ascending(req[r].rows \o req[s].rows)
             /\ req[r].rows \o req[s].rows
                  = SelectPage(req[r].snap, req[r].lim + req[s].lim, req[r].off)
             /\ \A t \in Slots :
                   ListOk(t) /\ req[t].snap = req[r].snap /\ req[t].off = req[r].off
                   /\ req[t].lim = req[r].lim + req[s].lim =>
                      req[t].rows = req[r].rows \o req[s].rows
    /\ \A a, b, o \in 0..PageMax :
          SelectPage(replica, a, o) \o SelectPage(replica, b, o + a)
            = SelectPage(replica, a + b, o)

\* Pages (2, 0) and (2, 2) of a four-row table have both been returned.
C10_Witness ==
    \E r, s \in Slots :
        /\ ListOk(r) /\ ListOk(s) /\ req[r].snap = req[s].snap
        /\ req[r].lim = 2 /\ req[r].off = 0 /\ req[s].lim = 2 /\ req[s].off = 2
        /\ Len(req[r].rows) = 2 /\ Len(req[s].rows) = 2

\* Text that is a decimal integer, and a JSON value int() turns into one.
IsIntText(t) == t \in {"0", "1", "2", "3", "4", "7", "-1"}
Coerces(v) == v.k = "int" \/ (v.k = "str" /\ IsIntText(v.s))

\* The request carries one of the invalid inputs: a create with no body, a
\* missing, empty or non-text product_name, or a price that is absent or
\* does not coerce; an update with no body or a price that does not coerce;
\* a list whose limit or offset is not an integer.
InvalidInput(q) ==
    \/ /\ q.route = "create" /\ Authorized(q)
       /\ \/ ~q.body.json
          \/ q.body.product_name.k # "str"
          \/ q.body.product_name.s = ""
          \/ ~Coerces(q.body.price)
    \/ /\ q.route = "update" /\ Authorized(q)
       /\ \/ ~q.body.json
          \/ q.body.price.k # "absent" /\ ~Coerces(q.body.price)
    \/ /\ q.route = "list"
       /\ \/ q.limit # <<>> /\ ~IsIntText(q.limit[1])
          \/ q.offset # <<>> /\ ~IsIntText(q.offset[1])

\* C11: a request with invalid input is answered 400 before run_query is
\* called: no connection is acquired, no statement is executed and no row
\* of the table changes.
C11_InvalidInputIs400 ==
    \A r \in Slots :
        LET q == req[r]
        IN InvalidInput(q) =>
              /\ q.pc = "done" /\ q.status = 400
              /\ q.attempt = 0 /\ q.acq = 0 /\ q.kind = "none"
              /\ \A p \in Pools : r \notin used[p]
              /\ primary = q.before

\* A create with a valid token and name and price "abc" has been answered
\* 400 while the table holds rows.
C11_Witness ==
    \E r \in Slots :
        LET q == req[r]
        IN /\ Answered(r, "create") /\ q.status = 400 /\ Authorized(q)
           /\ q.body.product_name = JS("c") /\ q.body.price = JS("abc")
           /\ q.attempt = 0 /\ primary # {}

\* The rows the open transaction of request q has written.
Written(q) == IF q.pc = "finally" THEN q.pend ELSE {}

\* C12: a product_id is given by the create path only and never changes:
\* the id of an inserted row is the next value of the table's sequence
\* whatever the body says, an UPDATE writes only the row of its path id and
\* keeps that id, and no step removes a product_id from the table.
C12_ProductIdImmutable ==
    /\ [](\A r \in Slots :
            LET q == req[r]
                W == Written(q)
            IN /\ Cardinality(W) <= 1
               /\ Ids(primary) \subseteq Ids(Commit(primary, W))
               /\ q.kind = "UPDATE" =>
                     /\ Ids(W) \subseteq {q.pid} \cap Ids(primary)
                     /\ Ids(Commit(primary, W)) = Ids(primary)
               /\ q.kind = "INSERT" =>
                     /\ Ids(W) \cap Ids(primary) = {}
                     /\ \A x \in W : x.product_id > MaxSeed /\ x.product_id < seq)
    /\ [][/\ Ids(primary) \subseteq Ids(primary')
          /\ \A r \in Slots :
                req[r].pc = "exec" /\ req[r].kind = "INSERT"
                /\ req'[r].pc = "finally" /\ ~req'[r].exc =>
                   /\ Ids(req'[r].pend) = {seq}
                   /\ req'[r].rows[1].product_id = seq
                   /\ seq' = seq + 1]_vars

\* An UPDATE of row 2 whose body also carries product_id 1 has written its
\* row.
C12_Witness ==
    \E r \in Slots :
        LET q == req[r]
        IN /\ q.route = "update" /\ q.pc = "finally" /\ q.pid = 2
           /\ q.body.product_id = JI(1) /\ q.pend # {}

\* C13: no route retries a failed database operation: a request of any
\* route calls run_query at most once, so a statement that failed is
\* reported and never executed a second time.
C13_NoRetry ==
    \A r \in Slots :
        LET q == req[r]
        IN /\ q.attempt <= 1
           /\ q.acq <= 1
           /\ q.pc = "done" /\ q.exc => q.status = 500

\* C14: run_query never hands a connection back to its pool with an open or
\* aborted transaction: when the finally block runs pool.putconn the
\* transaction has been committed or rolled back, and a failed statement
\* has committed nothing.
C14_NoOpenTransactionAtRelease ==
    /\ \A r \in Slots :
          req[r].pc = "finally" => req[r].tx = "idle" /\ req[r].pend = {}
    /\ \A r \in Slots :
          req[r].pc = "finally" /\ req[r].exc => primary = req[r].before

\* C15: at process teardown the registered close_pools hook runs to its end
\* and closes every connection of the primary and of the replica pool.
C15_PoolsClosedAtExit ==
    hook # "registered" =>
        /\ hook = "returned"
        /\ \A p \in Pools : closed[p] /\ avail[p] = 0 /\ used[p] = {}

====
